---------------------------- MODULE Spec2Model ----------------------------
(***************************************************************************)
(* A model of the movie catalogue backend: the pydantic schemas of         *)
(* schemas/movies.py, the settings resolver of config/settings.py and the  *)
(* backend selection of database/__init__.py.                              *)
(*                                                                         *)
(* Representation.  A Python str is a sequence of characters, a character  *)
(* a one-element name ("a", "A", "-", ...).  A float is an integer number  *)
(* of 1/Units, so 100.0001 is 100 * Units + 1 when Units is 10000.  A date *)
(* is a record [year, month, day].  An optional value is <<>> (None) or    *)
(* <<v>>.                                                                  *)
(***************************************************************************)
EXTENDS Integers, Sequences, FiniteSets, TLC

VARIABLES
    now_year,   \* datetime.now().year, the wall clock the validators read
    pc,         \* "idle" | "done": position of the schema caller
    call,       \* the last validation call: [schema, raw, year]
    result,     \* its outcome: [ok, errors, value]
    environ,    \* os.environ: variable name -> None (unset) or Some(string)
    changes,    \* how many times the environment was changed since the start
    config,     \* the module config.settings: [loaded, defaults]
    database,   \* the package database: [loaded, environment, the three bindings]
    outcome,    \* what the last attempt to obtain settings gave
    first       \* the settings the first get_settings() call returned, if any

schema_vars == <<now_year, pc, call, result>>
settings_vars == <<environ, changes, config, database, outcome, first>>

vars == <<now_year, pc, call, result, environ, changes, config, database, outcome, first>>

-----------------------------------------------------------------------------
(* Bounds of the model.                                                     *)

\* floats are modelled in steps of 1/Units
Units == 10000
\* name lengths are drawn from MaxLength - NameEdge .. MaxLength + NameEdge
NameEdge == 1
\* the first value of the wall clock's year
StartYear == 2025
\* the clock advances at most this many years
MaxTicks == 1
\* country strings have at most this many characters
MaxCountryLen == 3
\* the strings of a list field have at most this many characters
MaxStrLen == 2
\* a list field has at most this many strings
MaxListLen == 2
\* the environment is changed at most this many times after the start
MaxEnvChanges == 2
\* the catalogue holds at most this many movies
MaxItems == 25
\* a page holds at most this many movies
MaxPageSize == 10

(* Program constants.                                                       *)

\* Field(..., max_length=255)
MaxLength == 255
\* Field(..., ge=0, le=100)
ScoreGe == 0
ScoreLe == 100
\* Field(..., ge=0) of budget and revenue
MoneyGe == 0
\* value.year > current_year + 1
YearSlack == 1
\* int(os.getenv("POSTGRES_DB_PORT", 5432))
DefaultPort == 5432

-----------------------------------------------------------------------------
(* Values.                                                                  *)

None == <<>>
Some(v) == <<v>>

\* a str of n characters
Str(n) == [i \in 1..n |-> "x"]

\* database.models.MovieStatusEnum: the fixed set of lifecycle states
MovieStatusEnum == {"Released", "Post Production", "In Production"}

NoValue == [none |-> TRUE]

Accept(v) == [ok |-> TRUE, errors |-> {}, value |-> v]
Reject(errs) == [ok |-> FALSE, errors |-> errs, value |-> NoValue]
Outcome(errs, v) == IF errs = {} THEN Accept(v) ELSE Reject(errs)

-----------------------------------------------------------------------------
(* Field constraints of schemas/movies.py.                                  *)

\* Field(..., max_length=255)
max_length(s) == Len(s) <= MaxLength

\* the range with gt in place of ge
score_range_gt(s) == ScoreGe * Units < s /\ s <= ScoreLe * Units

\* Field(..., ge=0, le=100)
score_range(s) == ScoreGe * Units <= s /\ s <= ScoreLe * Units

\* Field(..., ge=0)
money_range(m) == MoneyGe * Units <= m

\* status: MovieStatusEnum
status_enum(s) == s \in MovieStatusEnum

\* MovieBaseSchema.validate_date: raises iff value.year > current_year + 1
validate_date(value, current_year) == ~(value.year > current_year + YearSlack)

-----------------------------------------------------------------------------
(* Python's str.upper() and str.title() on the characters of the model.     *)
(* "sz" is U+00DF (sharp s), "j^" is U+01F0 (j with caron) and "^" is       *)
(* U+030C (combining caron, category Mn: not a cased character).            *)

LowerAlpha == <<"a", "b", "c", "d", "e", "f", "g", "h", "i", "j", "k", "l", "m",
                "n", "o", "p", "q", "r", "s", "t", "u", "v", "w", "x", "y", "z">>
UpperAlpha == <<"A", "B", "C", "D", "E", "F", "G", "H", "I", "J", "K", "L", "M",
                "N", "O", "P", "Q", "R", "S", "T", "U", "V", "W", "X", "Y", "Z">>

IndexOf(c, alpha) == CHOOSE i \in 1..Len(alpha) : alpha[i] = c
IsLower(c) == \E i \in 1..Len(LowerAlpha) : LowerAlpha[i] = c
IsUpper(c) == \E i \in 1..Len(UpperAlpha) : UpperAlpha[i] = c

\* _PyUnicode_IsCased
IsCased(c) == IsLower(c) \/ IsUpper(c) \/ c \in {"sz", "j^"}

\* _PyUnicode_ToUpperFull
ToUpperFull(c) ==
    IF IsLower(c) THEN <<UpperAlpha[IndexOf(c, LowerAlpha)]>>
    ELSE IF c = "sz" THEN <<"S", "S">>
    ELSE IF c = "j^" THEN <<"J", "^">>
    ELSE <<c>>

\* _PyUnicode_ToTitleFull
ToTitleFull(c) ==
    IF IsLower(c) THEN <<UpperAlpha[IndexOf(c, LowerAlpha)]>>
    ELSE IF c = "sz" THEN <<"S", "s">>
    ELSE IF c = "j^" THEN <<"J", "^">>
    ELSE <<c>>

\* _PyUnicode_ToLowerFull
ToLowerFull(c) ==
    IF IsUpper(c) THEN <<LowerAlpha[IndexOf(c, UpperAlpha)]>> ELSE <<c>>

\* str.upper(): every character mapped by ToUpperFull
RECURSIVE upper(_)
upper(s) == IF s = <<>> THEN <<>> ELSE ToUpperFull(Head(s)) \o upper(Tail(s))

\* str.title(): a character that follows a cased character is lower-cased,
\* any other is title-cased
RECURSIVE do_title(_, _)
do_title(s, previous_is_cased) ==
    IF s = <<>> THEN <<>>
    ELSE (IF previous_is_cased THEN ToLowerFull(Head(s)) ELSE ToTitleFull(Head(s)))
         \o do_title(Tail(s), IsCased(Head(s)))

title(s) == do_title(s, FALSE)

-----------------------------------------------------------------------------
(* The schemas of schemas/movies.py.  A validation collects the names of    *)
(* every field that fails and yields the typed value when none does.        *)

\* MovieBaseSchema: name, date, score, overview, status, budget, revenue
BaseErrors(raw, current_year) ==
    {f \in {"name", "date", "score", "status", "budget", "revenue"} :
        \/ f = "name" /\ ~max_length(raw.name)
        \/ f = "date" /\ ~validate_date(raw.date, current_year)
        \/ f = "score" /\ ~score_range(raw.score)
        \/ f = "status" /\ ~status_enum(raw.status)
        \/ f = "budget" /\ ~money_range(raw.budget)
        \/ f = "revenue" /\ ~money_range(raw.revenue)}

MovieBaseSchema(raw, current_year) == Outcome(BaseErrors(raw, current_year), raw)

\* MovieDetailSchema(MovieBaseSchema): the base fields and validator, plus id
\* and the resolved relations
MovieDetailSchema(raw, current_year) == Outcome(BaseErrors(raw, current_year), raw)

\* the country title-cased, as the list fields are
normalize_country_title(value) == title(value)

\* MovieCreateSchema.normalize_country (mode="before")
normalize_country(value) == upper(value)

\* MovieCreateSchema.normalize_list_fields (mode="before")
normalize_list_fields(value) == [i \in 1..Len(value) |-> title(value[i])]

\* MovieCreateSchema: its own field list; name and date carry no constraint
CreateErrors(raw) ==
    {f \in {"score", "status", "budget", "revenue"} :
        \/ f = "score" /\ ~score_range(raw.score)
        \/ f = "status" /\ ~status_enum(raw.status)
        \/ f = "budget" /\ ~money_range(raw.budget)
        \/ f = "revenue" /\ ~money_range(raw.revenue)}

MovieCreateSchema(raw) ==
    Outcome(CreateErrors(raw),
            [raw EXCEPT !.country = normalize_country(raw.country),
                        !.genres = normalize_list_fields(raw.genres),
                        !.actors = normalize_list_fields(raw.actors),
                        !.languages = normalize_list_fields(raw.languages)])

UpdateFields == {"name", "date", "score", "overview", "status", "budget", "revenue"}

\* the field's value in an update payload: None when absent or null
Given(raw, f) == IF f \in DOMAIN raw THEN raw[f] ELSE None

\* "date: Optional[date] = None" in the class body: the default is bound to
\* the name date before the annotation is evaluated, so the annotation is
\* Optional[None] and the field admits None only
UpdateDateAnnotation(v) == v = None

\* MovieUpdateSchema: every field Optional; Field(None, ge=0, le=100) on score,
\* Field(None, ge=0) on budget and revenue, no constraint on name
UpdateErrors(raw) ==
    {f \in DOMAIN raw :
        \/ f = "date" /\ ~UpdateDateAnnotation(raw[f])
        \/ f = "score" /\ raw[f] # None /\ ~score_range(raw[f][1])
        \/ f = "status" /\ raw[f] # None /\ ~status_enum(raw[f][1])
        \/ f = "budget" /\ raw[f] # None /\ ~money_range(raw[f][1])
        \/ f = "revenue" /\ raw[f] # None /\ ~money_range(raw[f][1])}

MovieUpdateSchema(raw) ==
    Outcome(UpdateErrors(raw),
            [fields_set |-> DOMAIN raw,
             fields |-> [f \in UpdateFields |-> Given(raw, f)]])

-----------------------------------------------------------------------------
(* config/settings.py and database/__init__.py.  A path is the sequence of  *)
(* its components, the directory BASE_DIR one component.                    *)

EnvVars == {"ENVIRONMENT", "POSTGRES_USER", "POSTGRES_PASSWORD", "POSTGRES_HOST",
            "POSTGRES_DB_PORT", "POSTGRES_DB", "BASE_DIR", "PATH_TO_DB",
            "PATH_TO_MOVIES_CSV"}

\* the values the process's owner gives each variable
EnvValues(v) ==
    CASE v = "ENVIRONMENT" -> {"testing", "developing", "TESTING"}
      [] v = "POSTGRES_USER" -> {"alice"}
      [] v = "POSTGRES_PASSWORD" -> {"secret"}
      [] v = "POSTGRES_HOST" -> {"db.local"}
      [] v = "POSTGRES_DB_PORT" -> {"6543", "abc"}
      [] v = "POSTGRES_DB" -> {"movies"}
      [] v = "BASE_DIR" -> {"/opt"}
      [] v = "PATH_TO_DB" -> {"/data/x.db"}
      [] v = "PATH_TO_MOVIES_CSV" -> {"/data/x.csv"}

\* os.getenv(name, default)
getenv(e, name, default) == IF e[name] = None THEN default ELSE e[name][1]

\* int(x) of a string: the number, or None where int() raises ValueError
int(x) == IF x = "6543" THEN Some(6543) ELSE None

\* BaseAppSettings: the class-level defaults of the three path fields
BaseAppSettings ==
    [BASE_DIR |-> "src",
     PATH_TO_DB |-> <<"src", "database", "source", "theater.db">>,
     PATH_TO_MOVIES_CSV |-> <<"src", "database", "seed_data", "imdb_movies.csv">>]

\* BaseSettings.__init__ on the three path fields: the variable of the
\* field's name, when set, takes the place of the class's default
PathFields(e) ==
    [BASE_DIR |-> getenv(e, "BASE_DIR", BaseAppSettings.BASE_DIR),
     PATH_TO_DB |-> IF e["PATH_TO_DB"] = None THEN BaseAppSettings.PATH_TO_DB
                    ELSE e["PATH_TO_DB"],
     PATH_TO_MOVIES_CSV |-> IF e["PATH_TO_MOVIES_CSV"] = None
                            THEN BaseAppSettings.PATH_TO_MOVIES_CSV
                            ELSE e["PATH_TO_MOVIES_CSV"]]

\* the body of class Settings, run when the module is imported: the
\* defaults of the POSTGRES_* fields, read from the environment of that time
SettingsClassBody(e) ==
    [POSTGRES_USER |-> getenv(e, "POSTGRES_USER", "test_user"),
     POSTGRES_PASSWORD |-> getenv(e, "POSTGRES_PASSWORD", "test_password"),
     POSTGRES_HOST |-> getenv(e, "POSTGRES_HOST", "test_host"),
     POSTGRES_DB_PORT |-> IF e["POSTGRES_DB_PORT"] = None THEN Some(DefaultPort)
                          ELSE int(e["POSTGRES_DB_PORT"][1]),
     POSTGRES_DB |-> getenv(e, "POSTGRES_DB", "test_db")]

\* importing config.settings raises ValueError iff int() does
ImportRaises(e) == SettingsClassBody(e).POSTGRES_DB_PORT = None

ValueError == [kind |-> "ValueError"]
ValidationError == [kind |-> "ValidationError"]

\* Settings(): every field from the environment of the call, else the class's
\* default; a POSTGRES_DB_PORT that is no integer fails validation
Settings(e, defaults) ==
    LET port == IF e["POSTGRES_DB_PORT"] = None THEN defaults.POSTGRES_DB_PORT
                ELSE int(e["POSTGRES_DB_PORT"][1])
    IN IF port = None THEN ValidationError
       ELSE [kind |-> "Settings",
             BASE_DIR |-> PathFields(e).BASE_DIR,
             PATH_TO_DB |-> PathFields(e).PATH_TO_DB,
             PATH_TO_MOVIES_CSV |-> PathFields(e).PATH_TO_MOVIES_CSV,
             POSTGRES_USER |-> getenv(e, "POSTGRES_USER", defaults.POSTGRES_USER),
             POSTGRES_PASSWORD |->
                 getenv(e, "POSTGRES_PASSWORD", defaults.POSTGRES_PASSWORD),
             POSTGRES_HOST |-> getenv(e, "POSTGRES_HOST", defaults.POSTGRES_HOST),
             POSTGRES_DB_PORT |-> port[1],
             POSTGRES_DB |-> getenv(e, "POSTGRES_DB", defaults.POSTGRES_DB)]

\* TestingSettings.model_post_init: the two paths are overwritten
model_post_init(self) ==
    [self EXCEPT !.PATH_TO_DB = <<":memory:">>,
                 !.PATH_TO_MOVIES_CSV =
                     <<self.BASE_DIR, "database", "seed_data", "test_data.csv">>]

\* TestingSettings(): the three path fields, then model_post_init
TestingSettings(e) ==
    model_post_init([kind |-> "TestingSettings",
                     BASE_DIR |-> PathFields(e).BASE_DIR,
                     PATH_TO_DB |-> PathFields(e).PATH_TO_DB,
                     PATH_TO_MOVIES_CSV |-> PathFields(e).PATH_TO_MOVIES_CSV])

\* get_settings()
get_settings(e, defaults) ==
    LET environment == getenv(e, "ENVIRONMENT", "developing")
    IN IF environment = "testing" THEN TestingSettings(e) ELSE Settings(e, defaults)

\* database/__init__.py, run when the package is imported
DatabaseInit(e) ==
    LET environment == getenv(e, "ENVIRONMENT", "developing")
    IN [loaded |-> TRUE,
        environment |-> environment,
        reset_database |-> "sqlite",
        get_db_contextmanager |->
            IF environment = "testing" THEN "sqlite" ELSE "postgresql",
        get_db |-> IF environment = "testing" THEN "sqlite" ELSE "postgresql"]

NotLoaded == [loaded |-> FALSE]
NoOutcome == [kind |-> "none"]
Attempt(e, got) == [kind |-> "attempt", environ |-> e, got |-> got]
Returned(o) == o.kind = "attempt" /\ o.got.kind \in {"Settings", "TestingSettings"}

-----------------------------------------------------------------------------
(* The payloads the callers send.                                           *)

NameLens == (MaxLength - NameEdge)..(MaxLength + NameEdge)
Years == StartYear..(StartYear + MaxTicks + YearSlack + 1)
Dates == {[year |-> y, month |-> 1, day |-> 1] : y \in Years}
             \cup {[year |-> y, month |-> 12, day |-> 31] : y \in Years}
\* -0.0001, 0, 100, 100.0001, 150
Scores == {ScoreGe * Units - 1, ScoreGe * Units, ScoreLe * Units,
           ScoreLe * Units + 1, 150 * Units}
StatusInputs == MovieStatusEnum \cup {"Cancelled"}
Budgets == {MoneyGe * Units - 1, MoneyGe * Units, 5 * Units}
Revenues == {MoneyGe * Units - 1, MoneyGe * Units}

ExampleName == <<"i", "n", "c", "e", "p", "t", "i", "o", "n">>
ExampleCountry == <<"u", "s">>
ExampleGenres == << <<"s", "c", "i", "-", "f", "i">>, <<"A", "C", "T", "I", "O", "N">> >>
ExampleActors == << <<"t", "o", "m">> >>
ExampleLanguages == << <<"e", "n">> >>

BaseRaw(n, d, s, st, b, r) ==
    [name |-> Str(n), date |-> d, score |-> s, overview |-> Str(1),
     status |-> st, budget |-> b, revenue |-> r]

DetailRaw(n, d, s, st, b, r) ==
    [name |-> Str(n), date |-> d, score |-> s, overview |-> Str(1),
     status |-> st, budget |-> b, revenue |-> r,
     id |-> 1,
     country |-> [id |-> 1, code |-> <<"U", "S">>, name |-> None],
     genres |-> << [id |-> 1, name |-> <<"S", "c", "i", "-", "F", "i">>] >>,
     actors |-> <<>>,
     languages |-> << [id |-> 1, name |-> <<"E", "n">>] >>]

CreateRaw(nm, d, s, st, b, r, c, g, a, l) ==
    [name |-> nm, date |-> d, score |-> s, overview |-> Str(1),
     status |-> st, budget |-> b, revenue |-> r,
     country |-> c, genres |-> g, actors |-> a, languages |-> l]

\* a field of an update payload: absent, null or a value
Absent == <<"absent", "absent">>
Maybe(S) == {Absent, None} \cup {Some(v) : v \in S}

UpdateRaw(m) == [f \in {g \in UpdateFields : m[g] # Absent} |-> m[f]]

UpdateDates == {[year |-> StartYear, month |-> 1, day |-> 1],
                [year |-> StartYear + MaxTicks + YearSlack + 1, month |-> 1, day |-> 1]}

-----------------------------------------------------------------------------
(* The caller of the schemas: one validation at a time.                     *)

NoCall == [schema |-> "none"]
NoResult == [ok |-> FALSE, errors |-> {}, value |-> NoValue]

\* nothing imported yet, no settings asked for, every variable unset
ProcessNotStarted ==
    /\ environ = [v \in EnvVars |-> None]
    /\ changes = 0
    /\ config = NotLoaded
    /\ database = NotLoaded
    /\ outcome = NoOutcome
    /\ first = None

IdleSchemas ==
    /\ now_year = StartYear
    /\ pc = "idle"
    /\ call = NoCall
    /\ result = NoResult

InitSchemas == IdleSchemas /\ ProcessNotStarted

Call(schema, raw, again) ==
    [schema |-> schema, raw |-> raw, year |-> now_year, again |-> again]

\* MovieBaseSchema.model_validate(raw)
ValidateBase ==
    /\ pc = "idle"
    /\ \E n \in NameLens, d \in Dates, s \in Scores, st \in StatusInputs,
          b \in Budgets, r \in Revenues :
           LET raw == BaseRaw(n, d, s, st, b, r)
           IN /\ call' = Call("MovieBaseSchema", raw, FALSE)
              /\ result' = MovieBaseSchema(raw, now_year)
    /\ pc' = "done"
    /\ UNCHANGED now_year
    /\ UNCHANGED settings_vars

\* MovieDetailSchema.model_validate(raw)
ValidateDetail ==
    /\ pc = "idle"
    /\ \E n \in NameLens, d \in Dates, s \in Scores, st \in StatusInputs,
          b \in Budgets, r \in Revenues :
           LET raw == DetailRaw(n, d, s, st, b, r)
           IN /\ call' = Call("MovieDetailSchema", raw, FALSE)
              /\ result' = MovieDetailSchema(raw, now_year)
    /\ pc' = "done"
    /\ UNCHANGED now_year
    /\ UNCHANGED settings_vars

\* MovieCreateSchema.model_validate(raw)
ValidateCreate ==
    /\ pc = "idle"
    /\ \E n \in NameLens, d \in Dates, s \in Scores, st \in StatusInputs,
          b \in Budgets, r \in Revenues :
           LET raw == CreateRaw(Str(n), d, s, st, b, r, ExampleCountry,
                                ExampleGenres, ExampleActors, ExampleLanguages)
           IN /\ call' = Call("MovieCreateSchema", raw, FALSE)
              /\ result' = MovieCreateSchema(raw)
    /\ pc' = "done"
    /\ UNCHANGED now_year
    /\ UNCHANGED settings_vars

\* MovieUpdateSchema.model_validate(raw)
ValidateUpdate ==
    /\ pc = "idle"
    /\ \E n \in Maybe({Str(k) : k \in NameLens}), d \in Maybe(UpdateDates),
          s \in Maybe(Scores), o \in {Absent, Some(Str(1))},
          st \in Maybe({"Released", "Cancelled"}),
          b \in Maybe({MoneyGe * Units - 1, MoneyGe * Units}),
          r \in Maybe(Revenues) :
           LET raw == UpdateRaw([name |-> n, date |-> d, score |-> s, overview |-> o,
                                 status |-> st, budget |-> b, revenue |-> r])
           IN /\ call' = Call("MovieUpdateSchema", raw, FALSE)
              /\ result' = MovieUpdateSchema(raw)
    /\ pc' = "done"
    /\ UNCHANGED now_year
    /\ UNCHANGED settings_vars

\* the caller drops the outcome and is ready for the next payload
Return ==
    /\ pc = "done"
    /\ pc' = "idle"
    /\ call' = NoCall
    /\ result' = NoResult
    /\ UNCHANGED now_year
    /\ UNCHANGED settings_vars

\* the wall clock passes into the next year
Tick ==
    /\ pc = "idle"
    /\ now_year < StartYear + MaxTicks
    /\ now_year' = now_year + 1
    /\ UNCHANGED <<pc, call, result>>
    /\ UNCHANGED settings_vars

NextSchemas ==
    \/ ValidateBase
    \/ ValidateDetail
    \/ ValidateCreate
    \/ ValidateUpdate
    \/ Return
    \/ Tick

SpecSchemas == InitSchemas /\ [][NextSchemas]_vars

-----------------------------------------------------------------------------
(* MovieCreateSchema's normalisation: payloads that differ in country, and  *)
(* payloads that differ in one of the list fields.  A validated value may   *)
(* be validated again.                                                      *)

Strings(chars, n) == UNION {[1..k -> chars] : k \in 0..n}
Lists(strs, n) == UNION {[1..k -> strs] : k \in 0..n}

CountryChars == {"u", "S", "-", "sz", "j^"}
ListChars == {"a", "F", "-", "j^"}
ListFields == {"genres", "actors", "languages"}

ExampleDate == [year |-> StartYear, month |-> 7, day |-> 16]

TextRaw(c, g, a, l) ==
    CreateRaw(ExampleName, ExampleDate, 88 * Units, "Released", 160 * Units,
              830 * Units, c, g, a, l)

\* MovieCreateSchema.model_validate(raw), raw with any country
ValidateCountry ==
    /\ pc = "idle"
    /\ \E c \in Strings(CountryChars, MaxCountryLen) :
           LET raw == TextRaw(c, ExampleGenres, ExampleActors, ExampleLanguages)
           IN /\ call' = Call("MovieCreateSchema", raw, FALSE)
              /\ result' = MovieCreateSchema(raw)
    /\ pc' = "done"
    /\ UNCHANGED now_year
    /\ UNCHANGED settings_vars

\* MovieCreateSchema.model_validate(raw), raw with any list in one list field
ValidateLists ==
    /\ pc = "idle"
    /\ \E f \in ListFields, L \in Lists(Strings(ListChars, MaxStrLen), MaxListLen) :
           LET raw == TextRaw(ExampleCountry,
                              IF f = "genres" THEN L ELSE ExampleGenres,
                              IF f = "actors" THEN L ELSE ExampleActors,
                              IF f = "languages" THEN L ELSE ExampleLanguages)
           IN /\ call' = Call("MovieCreateSchema", raw, FALSE)
              /\ result' = MovieCreateSchema(raw)
    /\ pc' = "done"
    /\ UNCHANGED now_year
    /\ UNCHANGED settings_vars

\* MovieCreateSchema.model_validate(value) of a value validated before
Revalidate ==
    /\ pc = "done"
    /\ call.schema = "MovieCreateSchema"
    /\ ~call.again
    /\ result.ok
    /\ call' = Call("MovieCreateSchema", result.value, TRUE)
    /\ result' = MovieCreateSchema(result.value)
    /\ UNCHANGED <<pc, now_year>>
    /\ UNCHANGED settings_vars

NextCountry ==
    \/ ValidateCountry
    \/ Revalidate
    \/ Return

SpecCountry == InitSchemas /\ [][NextCountry]_vars

NextLists ==
    \/ ValidateLists
    \/ Revalidate
    \/ Return

SpecLists == InitSchemas /\ [][NextLists]_vars

-----------------------------------------------------------------------------
(* The process: its environment, the imports of config.settings and of      *)
(* database, and the calls of get_settings().                               *)

\* a process starts with the environment its owner gave it: any values of
\* ENVIRONMENT, POSTGRES_DB_PORT, POSTGRES_USER and PATH_TO_DB
Settable(v) == {None} \cup {Some(x) : x \in EnvValues(v)}

InitSettings ==
    /\ \E e \in Settable("ENVIRONMENT"), p \in Settable("POSTGRES_DB_PORT"),
          u \in Settable("POSTGRES_USER"), d \in Settable("PATH_TO_DB") :
           environ = [v \in EnvVars |->
                         CASE v = "ENVIRONMENT" -> e
                           [] v = "POSTGRES_DB_PORT" -> p
                           [] v = "POSTGRES_USER" -> u
                           [] v = "PATH_TO_DB" -> d
                           [] OTHER -> None]
    /\ changes = 0
    /\ config = NotLoaded
    /\ database = NotLoaded
    /\ outcome = NoOutcome
    /\ first = None
    /\ IdleSchemas

\* os.environ[v] = x, or del os.environ[v]
SetEnv ==
    /\ changes < MaxEnvChanges
    /\ \E v \in EnvVars :
           \E x \in Settable(v) :
               /\ environ[v] # x
               /\ environ' = [environ EXCEPT ![v] = x]
    /\ changes' = changes + 1
    /\ UNCHANGED <<config, database, outcome, first>>
    /\ UNCHANGED schema_vars

Loaded(e) == [loaded |-> TRUE, defaults |-> SettingsClassBody(e)]

\* import config.settings, the class bodies run without raising (an import
\* that raises leaves the module unloaded: see GetSettings)
ImportSettings ==
    /\ ~config.loaded
    /\ ~ImportRaises(environ)
    /\ config' = Loaded(environ)
    /\ UNCHANGED <<environ, changes, database, outcome, first>>
    /\ UNCHANGED schema_vars

\* import database
ImportDatabase ==
    /\ ~database.loaded
    /\ database' = DatabaseInit(environ)
    /\ UNCHANGED <<environ, changes, config, outcome, first>>
    /\ UNCHANGED schema_vars

\* from config.settings import get_settings; get_settings()
GetSettings ==
    /\ IF ~config.loaded /\ ImportRaises(environ)
       THEN /\ config' = config
            /\ outcome' = Attempt(environ, ValueError)
       ELSE /\ config' = (IF config.loaded THEN config ELSE Loaded(environ))
            /\ outcome' = Attempt(environ, get_settings(environ, config'.defaults))
    /\ first' = (IF first = None /\ Returned(outcome') THEN Some(outcome'.got)
                 ELSE first)
    /\ UNCHANGED <<environ, changes, database>>
    /\ UNCHANGED schema_vars

NextSettings ==
    \/ SetEnv
    \/ ImportSettings
    \/ ImportDatabase
    \/ GetSettings

SpecSettings == InitSettings /\ [][NextSettings]_vars

-----------------------------------------------------------------------------
(* The paginated listing.  The envelope is schemas/movies.py's; the handler *)
(* that fills it is specified as: the requested slice, a prev_page that is  *)
(* null on the first page, a next_page that is null on the last page,       *)
(* total_pages the ceiling of total_items / page_size.                      *)

\* a stored movie
Stored(i) ==
    [id |-> i, name |-> ExampleName, date |-> ExampleDate, score |-> 88 * Units,
     overview |-> Str(1), status |-> "Released", budget |-> 160 * Units,
     revenue |-> 830 * Units]

\* the full ordered result set of a catalogue of n movies
Catalogue(n) == [i \in 1..n |-> Stored(i)]

\* MovieListItemSchema (from_attributes): the reduced projection
MovieListItemSchema(m) ==
    [id |-> m.id, name |-> m.name, date |-> m.date, score |-> m.score,
     overview |-> m.overview]

\* the envelope with its two page references exchanged
MovieListResponseSchema_swapped(movies, prev_page, next_page, total_pages, total_items) ==
    [movies |-> movies, prev_page |-> next_page, next_page |-> prev_page,
     total_pages |-> total_pages, total_items |-> total_items]

\* MovieListResponseSchema: the envelope
MovieListResponseSchema(movies, prev_page, next_page, total_pages, total_items) ==
    [movies |-> movies, prev_page |-> prev_page, next_page |-> next_page,
     total_pages |-> total_pages, total_items |-> total_items]

\* an opaque page reference
PageRef(page, per_page) == [page |-> page, per_page |-> per_page]

TotalPages(total_items, per_page) == (total_items + per_page - 1) \div per_page

Min(a, b) == IF a <= b THEN a ELSE b

\* the handler of the listing
Paginate(all, page, per_page) ==
    LET total_items == Len(all)
        total_pages == TotalPages(total_items, per_page)
        offset == (page - 1) * per_page
        slice == SubSeq(all, offset + 1, Min(offset + per_page, total_items))
    IN MovieListResponseSchema(
           [i \in 1..Len(slice) |-> MovieListItemSchema(slice[i])],
           IF page > 1 THEN Some(PageRef(page - 1, per_page)) ELSE None,
           IF page < total_pages THEN Some(PageRef(page + 1, per_page)) ELSE None,
           total_pages,
           total_items)

\* a listing request for a page the catalogue has (page 1 of an empty one)
GetMovies ==
    /\ pc = "idle"
    /\ \E n \in 0..MaxItems, per_page \in 1..MaxPageSize :
           \E page \in 1..(IF n = 0 THEN 1 ELSE TotalPages(n, per_page)) :
               /\ call' = [schema |-> "MovieListResponseSchema", items |-> n,
                           page |-> page, per_page |-> per_page, again |-> FALSE]
               /\ result' = Accept(Paginate(Catalogue(n), page, per_page))
    /\ pc' = "done"
    /\ UNCHANGED now_year
    /\ UNCHANGED settings_vars

NextPages ==
    \/ GetMovies
    \/ Return

SpecPages == InitSchemas /\ [][NextPages]_vars

-----------------------------------------------------------------------------
(* The properties.                                                          *)

\* what the specification asks of a field's value, the clock reading year
Asked(f, v, year) ==
    CASE f = "name" -> Len(v) <= 255
      [] f = "date" -> v.year <= year + 1
      [] f = "score" -> 0 <= v /\ v <= 100 * Units
      [] f = "status" -> v \in MovieStatusEnum
      [] f = "budget" -> 0 <= v
      [] f = "revenue" -> 0 <= v
      [] OTHER -> TRUE

Constrained == {"name", "date", "score", "status", "budget", "revenue"}

\* every field of the payload but f is as the specification asks
OtherwiseValid(raw, f, year) ==
    \A g \in Constrained \ {f} : Asked(g, raw[g], year)

Validated(schemas) == pc = "done" /\ call.schema \in schemas

\* C1: for an otherwise valid payload, validation by MovieBaseSchema,
\* MovieDetailSchema or MovieCreateSchema succeeds iff the date's year is at
\* most the current year, read at validation time, plus one.
C1_DateBoundAllForms ==
    (/\ Validated({"MovieBaseSchema", "MovieDetailSchema", "MovieCreateSchema"})
     /\ OtherwiseValid(call.raw, "date", call.year))
        => (result.ok <=> call.raw.date.year <= call.year + 1)

\* C2: for MovieBaseSchema and MovieCreateSchema the score is refused iff it
\* lies outside 0..100, and an otherwise valid payload is accepted iff its
\* score lies inside: 0 and 100 pass, -0.0001 and 100.0001 fail.
C2_ScoreRange ==
    Validated({"MovieBaseSchema", "MovieCreateSchema"})
        => LET s == call.raw.score
               inside == 0 <= s /\ s <= 100 * Units
           IN /\ "score" \in result.errors <=> ~inside
              /\ OtherwiseValid(call.raw, "score", call.year) => (result.ok <=> inside)
              /\ s \in {0, 100 * Units} => "score" \notin result.errors
              /\ s \in {0 - 1, 100 * Units + 1} => ~result.ok

\* MovieCreateSchema refuses 100.0001, and nothing else, in a valid payload
C2_Witness ==
    /\ Validated({"MovieCreateSchema"})
    /\ call.raw.score = 100 * Units + 1
    /\ result.errors = {"score"}

\* C3: a value accepted by MovieBaseSchema, MovieDetailSchema or
\* MovieCreateSchema has a name of at most 255 characters.
C3_NameBound ==
    (Validated({"MovieBaseSchema", "MovieDetailSchema", "MovieCreateSchema"})
     /\ result.ok)
        => Len(result.value.name) <= 255

\* C4: a MovieUpdateSchema payload is accepted iff every field it gives a
\* value satisfies the constraint of the write form, and the payload without
\* fields is accepted with every field absent.
C4_UpdateConstraints ==
    Validated({"MovieUpdateSchema"})
        => /\ result.ok <=>
                  \A f \in DOMAIN call.raw :
                      call.raw[f] = None \/ Asked(f, call.raw[f][1], call.year)
           /\ DOMAIN call.raw = {} =>
                  /\ result.ok
                  /\ result.value.fields_set = {}
                  /\ \A f \in UpdateFields : result.value.fields[f] = None

\* C7: the validated country of a MovieCreateSchema payload is its country
\* upper-cased: no character of it has an upper-case form other than itself,
\* and validating the validated value again leaves the country as it is.
C7_CountryUpper ==
    (Validated({"MovieCreateSchema"}) /\ result.ok)
        => LET c == result.value.country
           IN /\ c = upper(call.raw.country)
              /\ \A i \in 1..Len(c) : ToUpperFull(c[i]) = <<c[i]>>
              /\ call.again => c = call.raw.country

\* the sharp s and the j with caron were expanded, and the second
\* validation has run
C7_Witness ==
    /\ Validated({"MovieCreateSchema"})
    /\ call.again
    /\ result.ok
    /\ result.value.country = <<"J", "^", "S", "S">>

\* C8: each list field of a validated MovieCreateSchema payload has the
\* length and order of the list given, element i being element i
\* title-cased, and validating the validated value again leaves the lists as
\* they are; ["sci-fi", "ACTION"] becomes ["Sci-Fi", "Action"].
C8_ListsTitle ==
    (Validated({"MovieCreateSchema"}) /\ result.ok)
        => \A f \in ListFields :
               LET given == call.raw[f]
                   got == result.value[f]
               IN /\ Len(got) = Len(given)
                  /\ \A i \in 1..Len(given) : got[i] = title(given[i])
                  /\ call.again => got = given
                  /\ given = ExampleGenres =>
                         got = << <<"S", "c", "i", "-", "F", "i">>,
                                  <<"A", "c", "t", "i", "o", "n">> >>

\* C5: get_settings() gives the testing variant iff ENVIRONMENT is "testing",
\* and then PATH_TO_DB is ":memory:" and PATH_TO_MOVIES_CSV ends in
\* test_data.csv, whatever the other variables hold.
C5_TestingRegardless ==
    outcome.kind = "attempt"
        => LET testing == outcome.environ["ENVIRONMENT"] = Some("testing")
               got == outcome.got
           IN /\ got.kind = "TestingSettings" <=> testing
              /\ testing =>
                     /\ got.PATH_TO_DB = <<":memory:">>
                     /\ got.PATH_TO_MOVIES_CSV[Len(got.PATH_TO_MOVIES_CSV)] =
                            "test_data.csv"

\* C6: get_db, get_db_contextmanager and reset_database are bound to one
\* backend: SQLite when ENVIRONMENT is "testing", PostgreSQL otherwise.
C6_OneBackend ==
    database.loaded
        => LET backend == IF database.environment = "testing" THEN "sqlite"
                          ELSE "postgresql"
           IN /\ database.get_db = backend
              /\ database.get_db_contextmanager = backend
              /\ database.reset_database = backend

\* C9: every get_settings() call returns settings equal to those of the
\* first call, and their variant agrees with the backend the database
\* package selected.
C9_FixedSettings ==
    Returned(outcome)
        => /\ first = Some(outcome.got)
           /\ database.loaded =>
                  (outcome.got.kind = "TestingSettings" <=> database.get_db = "sqlite")

=============================================================================
